---- MODULE Spec2Model ----
(***************************************************************************)
(* climlab.process.time_dependent_process.TimeDependentProcess             *)
(*                                                                         *)
(* The time-stepping and tendency-composition engine: compute(),           *)
(* step_forward(), compute_diagnostics(), the integrate_* drivers and the  *)
(* per-process time record.                                                *)
(*                                                                         *)
(* Numbers.  State values, tendencies, timesteps and time averages are     *)
(* floating-point (numpy) values in the program.  They are modelled as     *)
(* exact rationals <<n, d>> in lowest terms with d > 0; a denominator of 0 *)
(* stands for what numpy yields on a division by zero: <<1,0>> is inf,     *)
(* <<-1,0>> is -inf and <<0,0>> is nan.  Rounding error is not modelled.   *)
(***************************************************************************)
EXTENDS Integers, Sequences, FiniteSets, TLC

----------------------------------------------------------------------------
(* Arithmetic on values *)

Abs(i) == IF i < 0 THEN -i ELSE i

Sign(i) == IF i < 0 THEN -1 ELSE IF i > 0 THEN 1 ELSE 0

RECURSIVE GCD(_, _)
GCD(a, b) == IF b = 0 THEN a ELSE GCD(b, a % b)

\* lowest terms, positive denominator; n/0 is inf, -inf or nan
Norm(n, d) ==
    IF d = 0 THEN <<Sign(n), 0>>
    ELSE LET g == GCD(Abs(n), Abs(d))
             s == Sign(d)
         IN  <<(s * n) \div g, (s * d) \div g>>

IntR(i) == <<i, 1>>

Zero == IntR(0)

One == IntR(1)

IsFinite(x) == x[2] # 0

\* x + y  (over the least common denominator)
RAdd(x, y) ==
    IF x[2] = 0 \/ y[2] = 0
    THEN Norm(x[1] * y[2] + y[1] * x[2], 0)
    ELSE LET g == GCD(x[2], y[2])
         IN  Norm(x[1] * (y[2] \div g) + y[1] * (x[2] \div g),
                  (x[2] \div g) * y[2])

RNeg(x) == <<-x[1], x[2]>>

\* x - y
RSub(x, y) == RAdd(x, RNeg(y))

\* x * y  (cross-reduced first)
RMul(x, y) ==
    LET a == Norm(x[1], y[2])
        b == Norm(y[1], x[2])
    IN  IF x[2] = 0 \/ y[2] = 0
        THEN Norm(x[1] * y[1], 0)
        ELSE Norm(a[1] * b[1], a[2] * b[2])

\* x / y ; a zero divisor gives inf, -inf or nan, as numpy does
RDiv(x, y) ==
    IF y[1] = 0 THEN Norm(x[1], 0)
    ELSE RMul(x, Norm(y[2], y[1]))

RAbs(x) == <<Abs(x[1]), x[2]>>

\* x > y ; every comparison with nan is false
RGt(x, y) ==
    IF x = <<0, 0>> \/ y = <<0, 0>> THEN FALSE
    ELSE IF x[2] = 0 \/ y[2] = 0
         THEN (IF x[2] = 0 THEN 2 * x[1] ELSE Sign(x[1]))
              > (IF y[2] = 0 THEN 2 * y[1] ELSE Sign(y[1]))
         ELSE LET g == GCD(x[2], y[2])
              IN  x[1] * (y[2] \div g) > y[1] * (x[2] \div g)

\* x >= y
RGe(x, y) ==
    IF x = <<0, 0>> \/ y = <<0, 0>> THEN FALSE
    ELSE x = y \/ RGt(x, y)

\* int(x): truncation toward zero
Trunc(x) ==
    IF x[1] >= 0 THEN x[1] \div x[2] ELSE -((-x[1]) \div x[2])

\* the empty dict
EmptyMap == [k \in {} |-> Zero]

----------------------------------------------------------------------------
(* climlab.constants, in small units.  A year is two and a half days long, *)
(* so that the default timestep of one day gives a non-integer number of   *)
(* steps per year, as the real 365.2422 does.                              *)

seconds_per_day == IntR(2)

days_per_year == <<5, 2>>

seconds_per_year == RMul(seconds_per_day, days_per_year)

----------------------------------------------------------------------------
(* The process tree *)

\* the processes: the receiver of every call ("top") and two sub-processes
Procs == {"top", "a", "b"}

Types == {"diagnostic", "explicit", "implicit", "adjustment"}

\* the keys of self.state; the arrays are shared by the whole tree
Vars == {"Ts", "Tatm"}

\* the keys of each process's own state dict
pvars(p) == IF p = "a" THEN {"Ts"} ELSE Vars

\* the variable a process's physics is about
ownvar(p) == IF p = "b" THEN "Tatm" ELSE "Ts"

\* what a daughter class's _compute() does:
\*   base   the inherited _compute(): a zero tendency for every state key
\*   diag   the inherited tendencies, and it refreshes self.diagnostics
\*   const  a constant tendency
\*   relax  halves its own variable over one timestep
\*   alien  returns a tendency for a key that self.state does not have
\*   raise  raises
Laws == {"base", "diag", "const", "relax", "alien", "raise"}

VARIABLES
    subprocess,             \* Process.subprocess: the children of each process, in dict order
    time_type,              \* self.time_type of each process
    law,                    \* which _compute() each process's class has
    topdown,                \* self.topdown
    state,                  \* self.state
    diagnostics,            \* self.diagnostics
    tendencies,             \* self.tendencies
    timeave,                \* self.timeave
    time,                   \* self.time of each process (self.param['timestep'] is time.timestep)
    has_process_type_list,  \* self.has_process_type_list
    process_types,          \* self.process_types
    frame,                  \* integrate_converge's frame while it runs
    last,                   \* the last call made on the receiver, and what it did
    ncalls                  \* how many calls were made on the receiver

vars == <<subprocess, time_type, law, topdown, state, diagnostics, tendencies,
          timeave, time, has_process_type_list, process_types, frame, last, ncalls>>

\* the receiver's mutable attributes, as one value the methods pass along;
\* locals are the dicts compute() keeps for its stages, and log, trace,
\* ncompute, nstep and raised describe the call in progress
Self ==
    [state |-> state, diagnostics |-> diagnostics, tendencies |-> tendencies,
     timeave |-> timeave, time |-> time,
     has_process_type_list |-> has_process_type_list,
     process_types |-> process_types,
     locals |-> [t \in Types |-> EmptyMap],
     log |-> <<>>, trace |-> <<>>, ncompute |-> 0, nstep |-> 0, raised |-> FALSE]

----------------------------------------------------------------------------
(* The time record *)

\* np.arange(start, stop, step)
RECURSIVE arange(_, _, _)
arange(start, stop, step) ==
    IF RGe(start, stop) THEN <<>>
    ELSE <<start>> \o arange(RAdd(start, step), stop, step)

\* the setter of the timestep property: a fresh time record
timestep_setter(value) ==
    [timestep |-> value,
     num_steps_per_year |-> RDiv(seconds_per_year, value),
     day_of_year_index |-> 0,
     steps |-> 0,
     days_elapsed |-> Zero,
     years_elapsed |-> 0,
     days_of_year |-> arange(Zero, days_per_year, RDiv(value, seconds_per_day))]

\* set_timestep(num_steps_per_year=n): the timestep that is handed to the setter
timestep_of_steps_per_year(n) == RDiv(seconds_per_year, n)

\* (variant) the new year starts at index 1
_do_new_calendar_year_from_one(t) ==
    [t EXCEPT !.day_of_year_index = 1, !.years_elapsed = @ + 1]

_do_new_calendar_year(t) ==
    [t EXCEPT !.day_of_year_index = 0, !.years_elapsed = @ + 1]

\* (variant) the year ends one step sooner
_update_time_early(t) ==
    LET t1 == [t EXCEPT !.steps = @ + 1,
                        !.days_elapsed = RAdd(@, RDiv(t.timestep, seconds_per_day))]
    IN  IF RGe(IntR(t1.day_of_year_index + 1), RSub(t1.num_steps_per_year, One))
        THEN _do_new_calendar_year(t1)
        ELSE [t1 EXCEPT !.day_of_year_index = @ + 1]

\* (variant) the year ends on > instead of >=
_update_time_strict(t) ==
    LET t1 == [t EXCEPT !.steps = @ + 1,
                        !.days_elapsed = RAdd(@, RDiv(t.timestep, seconds_per_day))]
    IN  IF RGt(IntR(t1.day_of_year_index), RSub(t1.num_steps_per_year, One))
        THEN _do_new_calendar_year(t1)
        ELSE [t1 EXCEPT !.day_of_year_index = @ + 1]

_update_time(t) ==
    LET t1 == [t EXCEPT !.steps = @ + 1,
                        !.days_elapsed = RAdd(@, RDiv(t.timestep, seconds_per_day))]
    IN  IF RGe(IntR(t1.day_of_year_index), RSub(t1.num_steps_per_year, One))
        THEN _do_new_calendar_year(t1)
        ELSE [t1 EXCEPT !.day_of_year_index = @ + 1]

----------------------------------------------------------------------------
(* The process-type partition *)

\* climlab.utils.walk.walk_processes: the processes of the tree under p, p
\* before its descendants when td, after them otherwise
RECURSIVE walk_forest(_, _)
walk_forest(ps, td) ==
    IF ps = <<>> THEN <<>>
    ELSE (IF td THEN <<Head(ps)>> \o walk_forest(subprocess[Head(ps)], td)
                ELSE walk_forest(subprocess[Head(ps)], td) \o <<Head(ps)>>)
         \o walk_forest(Tail(ps), td)

walk_processes(p, td) == walk_forest(<<p>>, td)

\* (variant) every process is filed as an explicit one
RECURSIVE fill_process_types_untyped(_, _, _)
fill_process_types_untyped(pt, walk, i) ==
    IF i > Len(walk) THEN pt
    ELSE fill_process_types_untyped([pt EXCEPT !["explicit"] = Append(@, walk[i])],
                                    walk, i + 1)

\* self.process_types[proc.time_type].append(proc) for the walk from the i-th on
RECURSIVE fill_process_types(_, _, _)
fill_process_types(pt, walk, i) ==
    IF i > Len(walk) THEN pt
    ELSE fill_process_types([pt EXCEPT ![time_type[walk[i]]] = Append(@, walk[i])],
                            walk, i + 1)

\* (variant) the tree is always walked top-down
_build_process_type_list_topdown(w) ==
    [w EXCEPT !.process_types =
                  fill_process_types([t \in Types |-> <<>>],
                                     walk_processes("top", TRUE), 1),
              !.has_process_type_list = TRUE]

_build_process_type_list(w) ==
    [w EXCEPT !.process_types =
                  fill_process_types([t \in Types |-> <<>>],
                                     walk_processes("top", topdown), 1),
              !.has_process_type_list = TRUE]

----------------------------------------------------------------------------
(* _compute(): the tendencies of one process *)

\* the key a faulty process reports and self.state does not have
AlienKey == "q"

\* the inherited _compute(): value * 0. for every key of the process's state
_compute_base(p, w) == [name \in pvars(p) |-> RMul(w.state[name], Zero)]

\* the resolution of the relaxing class: it works in steps of 1/Quantum
Quantum == 16

\* x to the next multiple of 1/Quantum toward zero
Quantized(x) == Norm(Trunc(RMul(x, IntR(Quantum))), Quantum)

\* a daughter class that relaxes its own variable toward zero: over one
\* timestep of the integration it takes the variable to half its value (to
\* the resolution above), as a rate, or as the total change when it is an
\* adjustment; the other keys of its state get the inherited zero
_compute_relax(p, w) ==
    [name \in pvars(p) |->
        LET change == RSub(Quantized(RDiv(w.state[name], IntR(2))), w.state[name])
        IN  IF name # ownvar(p) THEN RMul(w.state[name], Zero)
            ELSE IF time_type[p] = "adjustment" THEN change
            ELSE RDiv(change, w.time["top"].timestep)]

\* the diagnostics a process leaves in self.diagnostics: only the receiver's
\* own _compute() writes there
_compute_diagnostics(p, w) ==
    IF p = "top" /\ law[p] = "diag"
    THEN [name \in {"ASR", "Ts"} |->
            IF name = "ASR" THEN RMul(IntR(3), w.state["Ts"]) ELSE IntR(7)]
    ELSE w.diagnostics

\* proc._compute() on the state as it is now: whether it raised, the
\* tendency dict it returned, self.diagnostics afterwards
_compute(p, w) ==
    [raised |-> law[p] = "raise",
     proctend |->
        CASE law[p] = "const" -> [name \in pvars(p) |-> One]
          [] law[p] = "relax" -> _compute_relax(p, w)
          [] law[p] = "alien" -> [name \in {AlienKey} |-> One]
          [] OTHER            -> _compute_base(p, w),
     diagnostics |-> _compute_diagnostics(p, w)]

\* tendencies[varname] += tend for every item of proctend
add_proctend(tend, proctend) ==
    [varname \in DOMAIN tend |->
        IF varname \in DOMAIN proctend
        THEN RAdd(tend[varname], proctend[varname])
        ELSE tend[varname]]

\* (variant) a key that tendencies does not have is dropped without a word
absorb_proctend_dropping(acc, proctype, proc, r) ==
    LET logged == Append(acc.w.log, [proc |-> proc, proctype |-> proctype,
                                     seen |-> acc.w.state, raised |-> r.raised,
                                     proctend |-> r.proctend])
    IN  IF r.raised
        THEN [acc EXCEPT !.w.log = logged, !.w.raised = TRUE]
        ELSE [acc EXCEPT !.w.log = logged, !.w.diagnostics = r.diagnostics,
                         !.tendencies = add_proctend(@, r.proctend)]

\* the body of _compute_type's loop once proc._compute() has returned r, or
\* raised: the call is logged, and a key of proctend that tendencies does
\* not have is a KeyError
absorb_proctend(acc, proctype, proc, r) ==
    LET logged == Append(acc.w.log, [proc |-> proc, proctype |-> proctype,
                                     seen |-> acc.w.state, raised |-> r.raised,
                                     proctend |-> r.proctend])
    IN  IF r.raised
        THEN [acc EXCEPT !.w.log = logged, !.w.raised = TRUE]
        ELSE IF ~(DOMAIN r.proctend \subseteq DOMAIN acc.tendencies)
        THEN [acc EXCEPT !.w.log = logged, !.w.raised = TRUE,
                         !.w.diagnostics = r.diagnostics]
        ELSE [acc EXCEPT !.w.log = logged, !.w.diagnostics = r.diagnostics,
                         !.tendencies = add_proctend(@, r.proctend)]

\* for proc in self.process_types[proctype], from the i-th on
RECURSIVE _compute_type_loop(_, _, _)
_compute_type_loop(acc, proctype, i) ==
    IF i > Len(acc.w.process_types[proctype]) \/ acc.w.raised THEN acc
    ELSE _compute_type_loop(
             absorb_proctend(acc, proctype, acc.w.process_types[proctype][i],
                             _compute(acc.w.process_types[proctype][i], acc.w)),
             proctype, i + 1)

\* _compute_type(proctype): the receiver afterwards (w) and the returned dict
_compute_type(w, proctype) ==
    _compute_type_loop(
        [w |-> w,
         tendencies |-> [varname \in DOMAIN w.state |-> RMul(Zero, w.state[varname])]],
        proctype, 1)

----------------------------------------------------------------------------
(* compute() *)

\* var += tend[name] * timestep for every item of self.state
apply_tendencies(st, tend, timestep) ==
    [name \in DOMAIN st |-> RAdd(st[name], RMul(tend[name], timestep))]

\* (variant) only the explicit tendencies are removed
remove_tendencies_explicit_only(st, tendencies_implicit, tendencies_explicit, timestep) ==
    [name \in DOMAIN st |->
        RSub(st[name], RMul(tendencies_explicit[name], timestep))]

\* var -= (tendencies_implicit[name] + tendencies_explicit[name]) * timestep
remove_tendencies(st, tendencies_implicit, tendencies_explicit, timestep) ==
    [name \in DOMAIN st |->
        RSub(st[name],
             RMul(RAdd(tendencies_implicit[name], tendencies_explicit[name]),
                  timestep))]

\* (variant) the adjustments are taken for rates as they are
adjustment_tendencies_undivided(adjustments, timestep) == adjustments

\* adjustments[name] / timestep for every name
adjustment_tendencies(adjustments, timestep) ==
    [name \in DOMAIN adjustments |-> RDiv(adjustments[name], timestep)]

\* tendencies[name] += tend_dict[name] for every name of tend_dict
add_tend_dict(tend, tend_dict) ==
    [name \in DOMAIN tend |->
        IF name \in DOMAIN tend_dict THEN RAdd(tend[name], tend_dict[name])
        ELSE tend[name]]

\* the sum of the three dicts over a zero for every key of self.state
sum_tendencies(st, tendencies_explicit, tendencies_implicit, tendencies_adjustment) ==
    add_tend_dict(
        add_tend_dict(
            add_tend_dict([varname \in DOMAIN st |-> RMul(Zero, st[varname])],
                          tendencies_explicit),
            tendencies_implicit),
        tendencies_adjustment)

\* the locals of compute() once a stage has returned r: its dict is kept
\* under the stage's name
keep(r, local) ==
    [r.w EXCEPT !.locals = [@ EXCEPT ![local] = r.tendencies]]

\* (variant) the partition is built on every call
compute_enter_always_building(w) ==
    _build_process_type_list([w EXCEPT !.ncompute = @ + 1, !.log = <<>>,
                                       !.locals = [t \in Types |-> EmptyMap]])

\* lines 148-149: the partition is built when the flag is not set
compute_enter(w) ==
    LET w0 == [w EXCEPT !.ncompute = @ + 1, !.log = <<>>,
                        !.locals = [t \in Types |-> EmptyMap]]
    IN  IF ~w.has_process_type_list THEN _build_process_type_list(w0) ELSE w0

\* (variant) the diagnostic processes are not run
compute_diagnostic_skipped(w) == w

\* line 151: the diagnostic processes; what they return is ignored
compute_diagnostic(w) ==
    IF w.raised THEN w ELSE keep(_compute_type(w, "diagnostic"), "diagnostic")

\* line 153: the explicit processes
compute_explicit(w) ==
    IF w.raised THEN w ELSE keep(_compute_type(w, "explicit"), "explicit")

\* lines 157-158: the explicit tendencies are applied for the time being
apply_explicit(w) ==
    IF w.raised THEN w
    ELSE [w EXCEPT !.state = apply_tendencies(@, w.locals["explicit"],
                                              w.time["top"].timestep)]

\* line 160: the implicit processes
compute_implicit(w) ==
    IF w.raised THEN w ELSE keep(_compute_type(w, "implicit"), "implicit")

\* (variant) the implicit tendencies are not applied before the adjustments
apply_implicit_skipped(w) == w

\* lines 161-162: the implicit tendencies are applied for the time being
apply_implicit(w) ==
    IF w.raised THEN w
    ELSE [w EXCEPT !.state = apply_tendencies(@, w.locals["implicit"],
                                              w.time["top"].timestep)]

\* line 165: the adjustment processes
compute_adjustment(w) ==
    IF w.raised THEN w ELSE keep(_compute_type(w, "adjustment"), "adjustment")

\* (variant) the changes applied so far are also removed when a stage failed
remove_changes_also_on_failure(w) ==
    LET stage == IF w.log = <<>> THEN "diagnostic" ELSE w.log[Len(w.log)].proctype
        applied(name) ==
            CASE stage = "adjustment" ->
                     RAdd(w.locals["implicit"][name], w.locals["explicit"][name])
              [] stage = "implicit"   -> w.locals["explicit"][name]
              [] OTHER                -> Zero
    IN  IF w.raised
        THEN [w EXCEPT !.state = [name \in DOMAIN @ |->
                           RSub(@[name], RMul(applied(name), w.time["top"].timestep))]]
        ELSE [w EXCEPT !.state = remove_tendencies(@, w.locals["implicit"],
                                                   w.locals["explicit"],
                                                   w.time["top"].timestep)]

\* lines 170-172: the changes are removed from the model state
remove_changes(w) ==
    IF w.raised THEN w
    ELSE [w EXCEPT !.state = remove_tendencies(@, w.locals["implicit"],
                                               w.locals["explicit"],
                                               w.time["top"].timestep)]

\* lines 166-168 and 174-181: self.tendencies
collect_tendencies(w) ==
    IF w.raised THEN w
    ELSE [w EXCEPT !.tendencies =
             sum_tendencies(w.state, w.locals["explicit"], w.locals["implicit"],
                            adjustment_tendencies(w.locals["adjustment"],
                                                  w.time["top"].timestep))]

compute(w) ==
    collect_tendencies(
      remove_changes(
        compute_adjustment(
          apply_implicit(
            compute_implicit(
              apply_explicit(
                compute_explicit(
                  compute_diagnostic(
                    compute_enter(w)))))))))

----------------------------------------------------------------------------
(* step_forward() and compute_diagnostics() *)

\* (variant) only the receiver's counters are advanced
update_all_times_receiver_only(tm, walk) ==
    [p \in DOMAIN tm |-> IF p = "top" THEN _update_time(tm[p]) ELSE tm[p]]

\* proc._update_time() for every process of the walk
update_all_times(tm, walk) ==
    [p \in DOMAIN tm |->
        IF \E i \in 1..Len(walk) : walk[i] = p THEN _update_time(tm[p]) ELSE tm[p]]

\* (variant) the total tendency is added without the timestep
apply_step_unscaled(c) ==
    LET st == apply_tendencies(c.state, c.tendencies, One)
    IN  IF c.raised THEN c
        ELSE [c EXCEPT !.state = st,
                       !.time = update_all_times(@, walk_processes("top", TRUE)),
                       !.nstep = @ + 1,
                       !.trace = Append(@, [state |-> st,
                                            diagnostics |-> c.diagnostics])]

\* lines 264-269: the total tendency is applied, and every process's
\* counters are advanced; the step and the state it left are recorded
apply_step(c) ==
    LET st == apply_tendencies(c.state, c.tendencies, c.time["top"].timestep)
    IN  IF c.raised THEN c
        ELSE [c EXCEPT !.state = st,
                       !.time = update_all_times(@, walk_processes("top", TRUE)),
                       !.nstep = @ + 1,
                       !.trace = Append(@, [state |-> st,
                                            diagnostics |-> c.diagnostics])]

step_forward(w) == apply_step(compute(w))

\* (variant) every iteration is a full step
RECURSIVE compute_diagnostics_stepping(_, _)
compute_diagnostics_stepping(w, num_iter) ==
    IF num_iter <= 0 \/ w.raised THEN w
    ELSE compute_diagnostics_stepping(apply_step(compute(w)), num_iter - 1)

RECURSIVE compute_diagnostics(_, _)
compute_diagnostics(w, num_iter) ==
    IF num_iter <= 0 \/ w.raised THEN w
    ELSE compute_diagnostics(compute(w), num_iter - 1)

----------------------------------------------------------------------------
(* integrate_years() and integrate_days() *)

\* self.timeave = self.state.copy(); update(self.diagnostics); every value 0*value
timeave_reset(st, diag) ==
    [varname \in DOMAIN st \cup DOMAIN diag |->
        RMul(Zero, IF varname \in DOMAIN diag THEN diag[varname] ELSE st[varname])]

\* (variant) the diagnostic is preferred over the state variable of its name
timeave_add_diagnostics_first(ave, st, diag) ==
    [varname \in DOMAIN ave |->
        IF varname \in DOMAIN diag THEN RAdd(ave[varname], diag[varname])
        ELSE IF varname \in DOMAIN st THEN RAdd(ave[varname], st[varname])
        ELSE ave[varname]]

\* timeave[varname] += state[varname], else += diagnostics[varname], else pass
timeave_add(ave, st, diag) ==
    [varname \in DOMAIN ave |->
        IF varname \in DOMAIN st THEN RAdd(ave[varname], st[varname])
        ELSE IF varname \in DOMAIN diag THEN RAdd(ave[varname], diag[varname])
        ELSE ave[varname]]

\* timeave[varname] /= numsteps for every key
timeave_mean(ave, numsteps) ==
    [varname \in DOMAIN ave |-> RDiv(ave[varname], IntR(numsteps))]

\* (variant) a started step counts as a step
numsteps_of_rounded_up(w, years) ==
    LET x == RMul(w.time["top"].num_steps_per_year, years)
    IN  IF IntR(Trunc(x)) = x THEN Trunc(x) ELSE Trunc(x) + 1

\* numsteps = int(self.time['num_steps_per_year'] * years)
numsteps_of(w, years) == Trunc(RMul(w.time["top"].num_steps_per_year, years))

\* lines 363-380: the body of the time loop after step_forward() has left s
accumulate(s, count) ==
    IF s.raised THEN s
    ELSE [s EXCEPT !.timeave =
             timeave_add(IF count = 0 THEN timeave_reset(s.state, s.diagnostics)
                         ELSE @,
                         s.state, s.diagnostics)]

\* for count in range(numsteps), from count on
RECURSIVE time_loop(_, _, _)
time_loop(w, numsteps, count) ==
    IF count >= numsteps \/ w.raised THEN w
    ELSE time_loop(accumulate(step_forward(w), count), numsteps, count + 1)

\* lines 382-383: the sums become means
finish_timeave(w, numsteps) ==
    IF w.raised THEN w
    ELSE [w EXCEPT !.timeave = timeave_mean(@, numsteps)]

integrate_years(w, years) ==
    finish_timeave(time_loop([w EXCEPT !.trace = <<>>], numsteps_of(w, years), 0),
                   numsteps_of(w, years))

integrate_days(w, days) == integrate_years(w, RDiv(days, days_per_year))

----------------------------------------------------------------------------
(* integrate_converge(): one iteration at a time, since it need not return *)

\* (variant) the change is compared without its absolute value
not_converged_signed(value_old, value, crit) == RGt(RSub(value_old, value), crit)

\* (variant) the loop runs while the change is small
not_converged_below(value_old, value, crit) ==
    RGt(crit, RAbs(RSub(value_old, value)))

\* np.max(np.abs(value_old - value)) > crit
not_converged(value_old, value, crit) == RGt(RAbs(RSub(value_old, value)), crit)

IdleFrame ==
    [pc |-> "idle", crit |-> Zero, todo |-> <<>>, value_old |-> Zero,
     state_old |-> [v \in Vars |-> Zero], years_run |-> 0, tests |-> 0]

----------------------------------------------------------------------------
(* Bounds *)

\* calls made on the receiver in one run
MaxCalls == 2

\* compute_diagnostics(num_iter): num_iter in 0..MaxIter
MaxIter == 3

\* integrate_years(years): years in 0, 1/2, ..., MaxHalfYears/2
MaxHalfYears == 2

\* integrate_days(days): days in 1..MaxDays
MaxDays == 2

\* one-year integrations inside one integrate_converge() call
MaxConvergeYears == 6

Years == {Norm(k, 2) : k \in 0..MaxHalfYears}

Days == {IntR(k) : k \in 1..MaxDays}

\* crit of integrate_converge
Crits == {<<1, 4>>, One}

\* values assigned to the timestep property
Timesteps == {One, IntR(3)}

\* values given to set_timestep(num_steps_per_year=...)
StepsPerYear == {IntR(2), IntR(4)}

\* the orders in which a dict of the keys Vars can iterate
VarOrders == {<<"Ts", "Tatm">>, <<"Tatm", "Ts">>}

\* the trees: a and b both children of top, or b a child of a
Flat == [p \in Procs |-> IF p = "top" THEN <<"a", "b">> ELSE <<>>]

Chain == [p \in Procs |-> IF p = "top" THEN <<"a">>
                          ELSE IF p = "a" THEN <<"b">> ELSE <<>>]

----------------------------------------------------------------------------
(* The state machine *)

\* the state after construction, for the given trees and traversal orders
InitWith(shapes, orders) ==
    /\ subprocess \in shapes
    /\ time_type \in {f \in [Procs -> Types] : f["top"] = "explicit"}
    /\ law \in {f \in [Procs -> Laws] :
                    /\ f["top"] \in {"diag", "const"}
                    /\ f["a"] = "relax"
                    /\ f["b"] \in {"const", "relax", "alien", "raise"}}
    /\ topdown \in orders
    /\ state = [v \in Vars |-> IF v = "Ts" THEN IntR(2) ELSE IntR(-2)]
    /\ diagnostics = EmptyMap
    /\ tendencies = [v \in Vars |-> Zero]
    /\ timeave = EmptyMap
    /\ time = [p \in Procs |-> timestep_setter(seconds_per_day)]
    /\ has_process_type_list = FALSE
    /\ process_types = [t \in Types |-> <<>>]
    /\ frame = IdleFrame
    /\ last = [op |-> "init", arg |-> Zero, ok |-> TRUE, state |-> state,
               time |-> time, timeave |-> timeave, diagnostics |-> diagnostics,
               ncompute |-> 0, nstep |-> 0, log |-> <<>>, trace |-> <<>>,
               done |-> TRUE]
    /\ ncalls = 0

\* top -> a -> b, walked top-down (the default)
Init == InitWith({Chain}, {TRUE})

\* the receiver's attributes after a call
Install(w) ==
    /\ state' = w.state
    /\ diagnostics' = w.diagnostics
    /\ tendencies' = w.tendencies
    /\ timeave' = w.timeave
    /\ time' = w.time
    /\ has_process_type_list' = w.has_process_type_list
    /\ process_types' = w.process_types

\* the record of a call: how it was made, the attributes it started from, what it did
Called(op, arg, w) ==
    [op |-> op, arg |-> arg, ok |-> ~w.raised, state |-> state, time |-> time,
     timeave |-> timeave, diagnostics |-> diagnostics,
     ncompute |-> w.ncompute, nstep |-> w.nstep, log |-> w.log, trace |-> w.trace,
     done |-> TRUE]

\* a call that runs to its end (or to its exception) in one go
Call(op, arg, w) ==
    /\ frame.pc = "idle"
    /\ ncalls < MaxCalls
    /\ Install(w)
    /\ last' = Called(op, arg, w)
    /\ ncalls' = ncalls + 1
    /\ UNCHANGED <<subprocess, time_type, law, topdown, frame>>

Compute == Call("compute", Zero, compute(Self))

ComputeDiagnostics ==
    \E num_iter \in 0..MaxIter :
        Call("compute_diagnostics", IntR(num_iter), compute_diagnostics(Self, num_iter))

StepForward == Call("step_forward", Zero, step_forward(Self))

IntegrateYears ==
    \E years \in Years : Call("integrate_years", years, integrate_years(Self, years))

IntegrateDays ==
    \E days \in Days : Call("integrate_days", days, integrate_days(Self, days))

\* proc.timestep = value
SetTimestepProperty ==
    \E p \in Procs, value \in Timesteps :
        Call("timestep", value, [Self EXCEPT !.time[p] = timestep_setter(value)])

\* proc.set_timestep(num_steps_per_year=n)
SetTimestep ==
    \E p \in Procs, n \in StepsPerYear :
        Call("set_timestep", n,
             [Self EXCEPT !.time[p] = timestep_setter(timestep_of_steps_per_year(n))])

\* integrate_converge(crit) is entered: the for loop over self.state.iteritems()
\* is about to start, in the order the dict iterates
IntegrateConverge ==
    \E crit \in Crits, order \in VarOrders :
        /\ frame.pc = "idle"
        /\ ncalls < MaxCalls
        /\ frame' = [IdleFrame EXCEPT !.pc = "for", !.crit = crit, !.todo = order]
        /\ last' = [Called("integrate_converge", crit, Self) EXCEPT !.done = FALSE]
        /\ ncalls' = ncalls + 1
        /\ UNCHANGED <<subprocess, time_type, law, topdown, state, diagnostics,
                       tendencies, timeave, time, has_process_type_list,
                       process_types>>

\* value_old = copy.deepcopy(value); self.integrate_years(1): the frame and
\* the call record afterwards
ConvergeYear(w, tested) ==
    /\ frame.years_run < MaxConvergeYears
    /\ Install(w)
    /\ frame' = [frame EXCEPT !.pc = IF w.raised THEN "idle" ELSE "while",
                              !.value_old = state[Head(frame.todo)],
                              !.state_old = state,
                              !.years_run = @ + 1,
                              !.tests = @ + tested]
    /\ last' = [last EXCEPT !.ok = ~w.raised, !.done = w.raised,
                            !.ncompute = @ + w.ncompute, !.nstep = @ + w.nstep,
                            !.log = w.log, !.trace = w.trace]

\* (variant) a plain while loop: the test comes before the first integration
ConvergeFor_test_first ==
    /\ frame.pc = "for"
    /\ IF frame.todo = <<>>
       THEN /\ frame' = [frame EXCEPT !.pc = "idle"]
            /\ last' = [last EXCEPT !.done = TRUE]
       ELSE /\ frame' = [frame EXCEPT !.pc = "while",
                                      !.value_old = state[Head(frame.todo)],
                                      !.state_old = state]
            /\ UNCHANGED last
    /\ UNCHANGED <<subprocess, time_type, law, topdown, ncalls, state, diagnostics,
                   tendencies, timeave, time, has_process_type_list, process_types>>

\* the head of the for loop: the next state variable, its copy and the first
\* one-year integration for it; or the end of the loop and the return
ConvergeFor ==
    /\ frame.pc = "for"
    /\ IF frame.todo = <<>>
       THEN /\ frame' = [frame EXCEPT !.pc = "idle"]
            /\ last' = [last EXCEPT !.done = TRUE]
            /\ UNCHANGED <<state, diagnostics, tendencies, timeave, time,
                           has_process_type_list, process_types>>
       ELSE ConvergeYear(integrate_years(Self, One), 0)
    /\ UNCHANGED <<subprocess, time_type, law, topdown, ncalls>>

\* the while test, and the body when it holds
ConvergeWhile ==
    /\ frame.pc = "while"
    /\ IF not_converged(frame.value_old, state[Head(frame.todo)], frame.crit)
       THEN ConvergeYear(integrate_years(Self, One), 1)
       ELSE /\ frame' = [frame EXCEPT !.pc = "for", !.todo = Tail(@),
                                      !.tests = @ + 1]
            /\ UNCHANGED <<state, diagnostics, tendencies, timeave, time,
                           has_process_type_list, process_types, last>>
    /\ UNCHANGED <<subprocess, time_type, law, topdown, ncalls>>

Next ==
    \/ Compute
    \/ ComputeDiagnostics
    \/ StepForward
    \/ IntegrateYears
    \/ IntegrateDays
    \/ IntegrateConverge
    \/ ConvergeFor
    \/ ConvergeWhile
    \/ SetTimestepProperty
    \/ SetTimestep

Spec == Init /\ [][Next]_vars

----------------------------------------------------------------------------
(* The tree under edit: sub-processes are taken out of self.subprocess and   *)
(* put back in, and the flag is cleared, between calls of compute()          *)

\* the values of p.subprocess
Children(p) == {subprocess[p][i] : i \in 1..Len(subprocess[p])}

\* the processes of ps and those reached from them in at most n levels
RECURSIVE ReachFrom(_, _)
ReachFrom(ps, n) ==
    IF n = 0 THEN ps
    ELSE ReachFrom(ps \cup UNION {Children(p) : p \in ps}, n - 1)

\* the descendants of p
Descendants(p) == ReachFrom(Children(p), Cardinality(Procs))

\* the receiver and all its descendants
Tree == {"top"} \cup Descendants("top")

\* compute() calls in one run of the tree under edit
MaxTreeCalls == 3

\* both trees, walked either way, with processes that keep to the contract
TreeInit ==
    /\ InitWith({Flat, Chain}, BOOLEAN)
    /\ \A p \in Procs : law[p] \notin {"raise", "alien"}

TreeCompute ==
    /\ ncalls < MaxTreeCalls
    /\ Install(compute(Self))
    /\ last' = Called("compute", Zero, compute(Self))
    /\ ncalls' = ncalls + 1
    /\ UNCHANGED <<subprocess, time_type, law, topdown, frame>>

\* what an edit of the tree or of the flag leaves of the call record
Edited(op) ==
    /\ last' = Called(op, Zero, Self)
    /\ UNCHANGED <<time_type, law, topdown, state, diagnostics, tendencies,
                   timeave, time, frame, ncalls>>

\* del q.subprocess[name] for a process of the tree; the flag is not touched
Detach ==
    \E x \in Tree \ {"top"} :
        /\ subprocess' = [p \in Procs |-> SelectSeq(subprocess[p], LAMBDA c : c # x)]
        /\ Edited("detach")
        /\ UNCHANGED <<has_process_type_list, process_types>>

\* q.subprocess[name] = x for a process x that is in no tree; the flag is
\* not touched
Attach ==
    \E x \in Procs \ Tree, q \in Tree :
        /\ \A p \in Procs : x \notin Children(p)
        /\ subprocess' = [subprocess EXCEPT ![q] = Append(@, x)]
        /\ Edited("attach")
        /\ UNCHANGED <<has_process_type_list, process_types>>

\* self.has_process_type_list = False
ClearFlag ==
    /\ has_process_type_list
    /\ has_process_type_list' = FALSE
    /\ Edited("clear")
    /\ UNCHANGED <<subprocess, process_types>>

TreeNext ==
    \/ TreeCompute
    \/ Detach
    \/ Attach
    \/ ClearFlag

TreeSpec == TreeInit /\ [][TreeNext]_vars

----------------------------------------------------------------------------
(* What the properties below read from the record of the last call *)

Returned(op) == last.op = op /\ last.done /\ last.ok

TopStep == time["top"].timestep

\* the sum of what the logged _compute() calls of one type returned for v
RECURSIVE LogSum(_, _, _)
LogSum(log, proctype, v) ==
    IF log = <<>> THEN Zero
    ELSE RAdd(IF /\ Head(log).proctype = proctype
                 /\ ~Head(log).raised
                 /\ v \in DOMAIN Head(log).proctend
              THEN Head(log).proctend[v] ELSE Zero,
              LogSum(Tail(log), proctype, v))

\* explicit + implicit + adjustment / timestep, from the log
NetTendency(log, v) ==
    RAdd(RAdd(LogSum(log, "explicit", v), LogSum(log, "implicit", v)),
         RDiv(LogSum(log, "adjustment", v), TopStep))

\* some logged call of the type returned something other than zero
Contributes(log, proctype) ==
    \E i \in 1..Len(log) :
        /\ log[i].proctype = proctype
        /\ \E v \in DOMAIN log[i].proctend : log[i].proctend[v] # Zero

\* no process of the tree raises or reports a key the state does not have
WellFormed == \A p \in Procs : law[p] \notin {"raise", "alien"}

----------------------------------------------------------------------------
(* C1 *)

\* C1: tendency neutrality.  When a compute() call has returned, every
\* variable of state has the value it had before the call.
C1_TendencyNeutrality ==
    Returned("compute") => \A v \in Vars : state[v] = last.state[v]

\* a compute() that returned, whose adjustment stage saw a state moved by
\* non-zero explicit and implicit tendencies and proposed a non-zero change
C1_Witness ==
    /\ Returned("compute")
    /\ Contributes(last.log, "explicit")
    /\ Contributes(last.log, "implicit")
    /\ Contributes(last.log, "adjustment")
    /\ \E i \in 1..Len(last.log) :
          last.log[i].proctype = "adjustment" /\ last.log[i].seen # state

----------------------------------------------------------------------------
(* C2 *)

\* C2: after compute() returns, self.tendencies has exactly the keys of state
\* and tendencies[v] is the explicit sum plus the implicit sum plus the
\* adjustment sum over the timestep; what diagnostic processes return does not
\* count, and a type without processes contributes zero and raises nothing.
C2_NetTendency ==
    /\ Returned("compute") =>
          /\ DOMAIN tendencies = DOMAIN state
          /\ \A v \in DOMAIN state : tendencies[v] = NetTendency(last.log, v)
    /\ (last.op = "compute" /\ WellFormed) => last.ok

\* a compute() that returned with no implicit process in the tree, a
\* diagnostic process that returned a non-zero dict, and non-zero explicit and
\* adjustment contributions
C2_Witness ==
    /\ Returned("compute")
    /\ process_types["implicit"] = <<>>
    /\ Contributes(last.log, "diagnostic")
    /\ Contributes(last.log, "explicit")
    /\ Contributes(last.log, "adjustment")

----------------------------------------------------------------------------
(* C3 *)

\* C3: step_forward() changes state[v] by exactly tendencies[v] * timestep,
\* tendencies being the net tendencies of the one compute() call made inside
\* the step from the state before the step.
C3_StepApplication ==
    Returned("step_forward") =>
        /\ last.ncompute = 1
        /\ \A i \in 1..Len(last.log) :
              last.log[i].proctype \in {"diagnostic", "explicit"}
                  => last.log[i].seen = last.state
        /\ \A v \in Vars :
              /\ tendencies[v] = NetTendency(last.log, v)
              /\ state[v] = RAdd(last.state[v], RMul(tendencies[v], TopStep))

\* a step that returned, with non-zero implicit and adjustment contributions
\* and a state that moved
C3_Witness ==
    /\ Returned("step_forward")
    /\ Contributes(last.log, "implicit")
    /\ Contributes(last.log, "adjustment")
    /\ \A v \in Vars : state[v] # last.state[v]

----------------------------------------------------------------------------
(* C4 *)

\* C4: calendar rollover.  For a process whose num_steps_per_year is an
\* integer N, after k step_forward() calls since the timestep was set
\* (steps = k) years_elapsed is k div N and day_of_year_index is k mod N.
C4_CalendarRollover ==
    \A p \in Procs :
        LET N == time[p].num_steps_per_year
        IN  N[2] = 1 =>
                /\ time[p].years_elapsed = time[p].steps \div N[1]
                /\ time[p].day_of_year_index = time[p].steps % N[1]

\* four steps per year: the fourth step has ended the first year
C4_Witness ==
    /\ time["top"].num_steps_per_year = IntR(4)
    /\ time["top"].steps = 4
    /\ time["top"].years_elapsed = 1
    /\ time["top"].day_of_year_index = 0

----------------------------------------------------------------------------
(* C5 *)

\* floor(x * y) for x, y >= 0
FloorProduct(x, y) == (x[1] * y[1]) \div (x[2] * y[2])

\* C5: integrate_years(years) performs step_forward() exactly
\* floor(num_steps_per_year * years) times: the receiver's steps counter grows
\* by that number, and no step is taken when it is 0.
C5_IntegrateYearsSteps ==
    Returned("integrate_years") =>
        LET numsteps == FloorProduct(last.time["top"].num_steps_per_year, last.arg)
        IN  /\ last.nstep = numsteps
            /\ time["top"].steps = last.time["top"].steps + numsteps
            /\ numsteps = 0 => state = last.state /\ time = last.time

\* half a year at five steps a year: two steps, the half step is dropped
C5_Witness ==
    /\ Returned("integrate_years")
    /\ last.time["top"].num_steps_per_year = IntR(5)
    /\ last.arg = <<1, 2>>
    /\ last.nstep = 2
    /\ time["top"].steps = last.time["top"].steps + 2

----------------------------------------------------------------------------
(* C6 *)

\* the value v has in a snapshot: the state variable, else the diagnostic
SnapshotValue(snap, v) ==
    IF v \in DOMAIN snap.state THEN snap.state[v]
    ELSE IF v \in DOMAIN snap.diagnostics THEN snap.diagnostics[v]
    ELSE Zero

\* the sum of the values v had right after each step of the trace
RECURSIVE TraceSum(_, _)
TraceSum(trace, v) ==
    IF trace = <<>> THEN Zero
    ELSE RAdd(SnapshotValue(Head(trace), v), TraceSum(Tail(trace), v))

\* ave holds, for the names tracked at the first step, the mean over the trace
IsMeanOver(ave, trace) ==
    /\ DOMAIN ave = DOMAIN trace[1].state \cup DOMAIN trace[1].diagnostics
    /\ \A v \in DOMAIN ave :
          RMul(ave[v], IntR(Len(trace))) = TraceSum(trace, v)

\* C6: time averaging.  After integrate_years with numsteps >= 1, timeave
\* tracks the state and diagnostics names of the first step, and
\* timeave[v] * numsteps is the sum of the values v had right after each step
\* (the state variable preferred over a diagnostic of its name); so when
\* state and diagnostics stay constant timeave[v] is the value of v.
C6_TimeAverage ==
    (Returned("integrate_years") /\ last.nstep >= 1) =>
        /\ Len(last.trace) = last.nstep
        /\ IsMeanOver(timeave, last.trace)
        /\ (\A i \in 1..Len(last.trace) : last.trace[i] = last.trace[1]) =>
              \A v \in DOMAIN timeave :
                  timeave[v] = SnapshotValue(last.trace[1], v)

\* an integration of several steps during which state and diagnostics
\* changed, with a diagnostic named like a state variable and a different value
C6_Witness ==
    /\ Returned("integrate_years")
    /\ last.nstep >= 2
    /\ "ASR" \in DOMAIN timeave
    /\ "Ts" \in DOMAIN diagnostics /\ diagnostics["Ts"] # state["Ts"]
    /\ last.trace[1].state["Ts"] # last.trace[2].state["Ts"]
    /\ last.trace[1].diagnostics["ASR"] # last.trace[2].diagnostics["ASR"]

----------------------------------------------------------------------------
(* C7 *)

\* C7: the accumulator is reset by each integration call.  After every
\* integrate_years call that returned, also one of zero steps, timeave holds
\* the mean over the steps of that call only: nothing of an earlier call.
C7_ResetEachCall ==
    Returned("integrate_years") =>
        IF last.nstep = 0 THEN DOMAIN timeave = {}
        ELSE IsMeanOver(timeave, last.trace)

----------------------------------------------------------------------------
(* C8 *)

\* no process of the tree moves the state
ConstantTree ==
    /\ law["top"] = "diag"
    /\ time_type["a"] = "diagnostic"
    /\ time_type["b"] = "diagnostic"
    /\ WellFormed

\* C8 as stated: at least two one-year integrations before integrate_converge
\* can return, and no convergence test before the second has completed.
C8_TwoYearsBeforeTest ==
    /\ frame.tests >= 1 => frame.years_run >= 2
    /\ Returned("integrate_converge") => frame.years_run >= 2

\* C8, amended: a convergence test is evaluated only after a one-year
\* integration run for it (the first test after the first integration), and
\* integrate_converge runs at least one one-year integration per state
\* variable before it returns: exactly one per variable when nothing moves
\* the state.
C8_OneYearBeforeTest ==
    /\ frame.tests <= frame.years_run
    /\ frame.pc = "while" => frame.tests < frame.years_run
    /\ Returned("integrate_converge") =>
          /\ frame.years_run >= Cardinality(DOMAIN state)
          /\ ConstantTree => /\ frame.years_run = Cardinality(DOMAIN state)
                             /\ frame.tests = Cardinality(DOMAIN state)

\* a state that never changes: integrate_converge has returned after one
\* integration and one test per state variable
C8_Witness ==
    /\ Returned("integrate_converge")
    /\ ConstantTree
    /\ state = last.state
    /\ frame.years_run = 2
    /\ frame.tests = 2

----------------------------------------------------------------------------
(* C9 *)

\* every process relaxes its variable toward zero, or leaves the state alone
Decaying == law["top"] = "diag" /\ law["a"] = "relax" /\ law["b"] = "relax"

\* the largest change of a state variable over the last one-year integration
\* of the integrate_converge call is above x
LastYearChangeAbove(x) ==
    \E v \in Vars : RGt(RAbs(RSub(state[v], frame.state_old[v])), x)

\* integrate_converge on a decaying tree takes at most four one-year
\* integrations, fewer than the cap on them: it is never the cap that stops it
ConvergeBounded ==
    (last.op = "integrate_converge" /\ Decaying) =>
        /\ frame.years_run <= 4
        /\ frame.years_run < MaxConvergeYears

\* C9 as stated: for a tendency that decays geometrically integrate_converge
\* terminates after a bounded number of one-year integrations, and on return
\* the largest change of the state over the last of them is below crit.
C9_ChangeBelowCrit ==
    /\ ConvergeBounded
    /\ (Returned("integrate_converge") /\ Decaying) =>
          \A v \in Vars :
              RGt(frame.crit, RAbs(RSub(state[v], frame.state_old[v])))

\* C9, amended: for a tendency that decays geometrically integrate_converge
\* terminates after a bounded number of one-year integrations, and on return
\* the largest change of the state over the last of them is at most crit (the
\* loop runs while the change is greater than crit: a change equal to crit
\* ends it).
C9_ChangeAtMostCrit ==
    /\ ConvergeBounded
    /\ (Returned("integrate_converge") /\ Decaying) =>
          ~LastYearChangeAbove(frame.crit)

\* a decaying state that took more than one year per variable to converge,
\* and whose last year changed a variable by exactly crit
C9_Witness ==
    /\ Returned("integrate_converge")
    /\ Decaying
    /\ frame.years_run >= 3
    /\ \E v \in Vars : RAbs(RSub(state[v], frame.state_old[v])) = frame.crit

----------------------------------------------------------------------------
(* C10 *)

\* C10: compute_diagnostics(num_iter) calls compute() exactly num_iter times
\* and advances nothing: on return state and every process's time record are
\* as before, for any num_iter >= 0, wherever in a run it is called.
C10_ComputeDiagnosticsFrame ==
    Returned("compute_diagnostics") =>
        /\ IntR(last.ncompute) = last.arg
        /\ state = last.state
        /\ \A p \in Procs : time[p] = last.time[p]

\* three iterations after time has advanced, over a tree whose three
\* tendency stages all contribute
C10_Witness ==
    /\ Returned("compute_diagnostics")
    /\ last.arg = IntR(3)
    /\ last.ncompute = 3
    /\ time["top"].steps > 0
    /\ Contributes(last.log, "explicit")
    /\ Contributes(last.log, "implicit")
    /\ Contributes(last.log, "adjustment")

----------------------------------------------------------------------------
(* C11 *)

\* C11: the counters of a time record are changed only by the time-advance
\* operation, once per step: after any call every process's steps is its
\* steps before the call plus the steps the call took, a call without a step
\* leaves the counters alone, and steps and years_elapsed never decrease.
C11_CountersOnlyAdvance ==
    \A p \in Procs :
        /\ time[p].steps = last.time[p].steps + last.nstep
        /\ time[p].years_elapsed >= last.time[p].years_elapsed
        /\ last.nstep = 0 =>
              /\ time[p].day_of_year_index = last.time[p].day_of_year_index
              /\ time[p].days_elapsed = last.time[p].days_elapsed

----------------------------------------------------------------------------
(* C12 *)

\* the i-th logged _compute() returned a key that state does not have
ReportsAbsentKey(log, i) ==
    ~log[i].raised /\ ~(DOMAIN log[i].proctend \subseteq DOMAIN state)

\* C12: when a _compute() returns a tendency for a name that state does not
\* have, the call fails there and then: it does not return, no further
\* _compute() is invoked, and self.tendencies never has a key outside state.
C12_AbsentKeyFails ==
    /\ DOMAIN tendencies = DOMAIN state
    /\ \A i \in 1..Len(last.log) :
          ReportsAbsentKey(last.log, i) => ~last.ok /\ i = Len(last.log)

\* a compute() that failed on the key of the faulty process, after another
\* process had contributed
C12_Witness ==
    /\ last.op = "compute"
    /\ ~last.ok
    /\ Len(last.log) >= 2
    /\ ReportsAbsentKey(last.log, Len(last.log))
    /\ AlienKey \in DOMAIN last.log[Len(last.log)].proctend

----------------------------------------------------------------------------
(* C13 *)

\* the state before the call moved by the given rate over one timestep
Moved(v, rate) == RAdd(last.state[v], RMul(rate, TopStep))

\* C13: staged visibility.  Inside one compute() every explicit _compute()
\* sees the state of entry, every implicit one the state of entry plus the
\* explicit tendencies times the timestep, every adjustment one the state of
\* entry plus the explicit and implicit tendencies times the timestep.
C13_StagedVisibility ==
    last.op = "compute" =>
        \A i \in 1..Len(last.log) : \A v \in DOMAIN state :
            LET e == last.log[i]
            IN  /\ e.proctype = "explicit" => e.seen[v] = last.state[v]
                /\ e.proctype = "implicit" =>
                      e.seen[v] = Moved(v, LogSum(last.log, "explicit", v))
                /\ e.proctype = "adjustment" =>
                      e.seen[v] = Moved(v, RAdd(LogSum(last.log, "explicit", v),
                                                LogSum(last.log, "implicit", v)))

\* a compute() whose implicit process saw a state other than that of entry,
\* and whose adjustment process saw a third one
C13_Witness ==
    /\ Returned("compute")
    /\ \E i, j \in 1..Len(last.log) :
          /\ last.log[i].proctype = "implicit"
          /\ last.log[j].proctype = "adjustment"
          /\ last.log[i].seen # last.state
          /\ last.log[j].seen # last.state
          /\ last.log[j].seen # last.log[i].seen

----------------------------------------------------------------------------
(* C14 *)

\* the place of a type in the order of the stages
Rank(proctype) ==
    CASE proctype = "diagnostic" -> 1
      [] proctype = "explicit"   -> 2
      [] proctype = "implicit"   -> 3
      [] OTHER                   -> 4

\* the processes of the partition
Listed ==
    {p \in Procs : \E t \in Types : \E i \in 1..Len(process_types[t]) :
                        process_types[t][i] = p}

\* C14: stage order.  In a compute() that returned, every process of the
\* partition had its _compute() invoked exactly once, as a process of the
\* type it is listed under, and the invocations came one after the other with
\* the diagnostic ones first, then the explicit, the implicit and the
\* adjustment ones.
C14_StageOrder ==
    Returned("compute") =>
        /\ \A p \in Listed :
              Cardinality({i \in 1..Len(last.log) : last.log[i].proc = p}) = 1
        /\ \A i \in 1..Len(last.log) :
              \E k \in 1..Len(process_types[last.log[i].proctype]) :
                  process_types[last.log[i].proctype][k] = last.log[i].proc
        /\ \A i, j \in 1..Len(last.log) :
              i < j => Rank(last.log[i].proctype) <= Rank(last.log[j].proctype)

\* a compute() over a diagnostic, an explicit and an adjustment process
C14_Witness ==
    /\ Returned("compute")
    /\ Len(last.log) = 3
    /\ last.log[1].proctype = "diagnostic"
    /\ last.log[2].proctype = "explicit"
    /\ last.log[3].proctype = "adjustment"

----------------------------------------------------------------------------
(* C15 *)

\* C15: a step_forward() that returned has called compute() once, moved the
\* state by the net tendency, and advanced the counters of every process of
\* the tree by one step of its own timestep; so processes that had all
\* counted n steps before the call, as those of a fresh tree after n calls,
\* have all counted n + 1 after it.
C15_StepAdvancesEveryProcess ==
    /\ Returned("step_forward") =>
          /\ last.ncompute = 1
          /\ last.nstep = 1
          /\ last.trace[1].state = state
          /\ \A p \in Procs :
                /\ time[p].steps = last.time[p].steps + 1
                /\ time[p].days_elapsed =
                       RAdd(last.time[p].days_elapsed,
                            RDiv(time[p].timestep, seconds_per_day))
                /\ \/ /\ time[p].day_of_year_index = 0
                      /\ time[p].years_elapsed = last.time[p].years_elapsed + 1
                   \/ /\ time[p].day_of_year_index =
                             last.time[p].day_of_year_index + 1
                      /\ time[p].years_elapsed = last.time[p].years_elapsed
    /\ (/\ Returned("step_forward")
        /\ \A p \in Procs : last.time[p].steps = last.time["top"].steps) =>
          \A p \in Procs : time[p].steps = last.time["top"].steps + 1

\* two steps from a fresh tree: every process has counted two, and the
\* state has moved
C15_Witness ==
    /\ Returned("step_forward")
    /\ ncalls = 2
    /\ \A p \in Procs : time[p].steps = 2
    /\ state # last.state

----------------------------------------------------------------------------
(* C16 *)

\* the least integer that is not below x, for x > 0
Ceiling(x) == (x[1] + x[2] - 1) \div x[2]

\* C16 as stated: with a non-integer num_steps_per_year the year rolls over
\* early: when a year has just ended, no more than num_steps_per_year steps
\* were taken for each year that has passed.
C16_RollsOverEarly ==
    \A p \in Procs :
        LET N == time[p].num_steps_per_year
        IN  (N[2] > 1 /\ time[p].years_elapsed >= 1
                      /\ time[p].day_of_year_index = 0) =>
                RGe(RMul(IntR(time[p].years_elapsed), N), IntR(time[p].steps))

\* C16, amended: with a non-integer num_steps_per_year the year rolls over
\* late: every year takes ceil(num_steps_per_year) steps, which is more than
\* num_steps_per_year, so once a year has passed more steps were taken than
\* num_steps_per_year for each year.
C16_RollsOverLate ==
    \A p \in Procs :
        LET N == time[p].num_steps_per_year
        IN  N[2] > 1 =>
                /\ time[p].steps - time[p].day_of_year_index =
                       time[p].years_elapsed * Ceiling(N)
                /\ time[p].years_elapsed >= 1 =>
                       RGt(IntR(time[p].steps),
                           RMul(IntR(time[p].years_elapsed), N))

\* two and a half steps per year: the first year has just ended with the
\* third step
C16_Witness ==
    /\ time["top"].num_steps_per_year = <<5, 2>>
    /\ time["top"].years_elapsed = 1
    /\ time["top"].day_of_year_index = 0
    /\ time["top"].steps = 3

----------------------------------------------------------------------------
(* C17 *)

\* the processes whose _compute() the last call invoked
Invoked == {last.log[i].proc : i \in 1..Len(last.log)}

\* C17: the partition is built by compute() only when has_process_type_list
\* is false, and then from the tree as it is; while the flag is true no call
\* and no edit of the tree changes it, and a compute() invokes exactly the
\* processes listed in it: a process put into the tree after the build is
\* left out, one taken out of the tree is still invoked, until the flag is
\* cleared and the next compute() builds the partition anew.
C17_PartitionReuse ==
    /\ []((last.op = "compute" /\ last.ok) => Invoked = Listed)
    /\ [][/\ has_process_type_list => process_types' = process_types
          /\ process_types' # process_types => last'.op = "compute"
          /\ (~has_process_type_list /\ last'.op = "compute") =>
                 /\ has_process_type_list'
                 /\ Listed' = Tree']_vars

\* a compute() that used a partition built before the tree was edited: it
\* invoked a process that is no longer in the tree and left out one that is
C17_Witness ==
    /\ last.op = "compute" /\ last.ok
    /\ has_process_type_list
    /\ Invoked \ Tree # {}
    /\ Tree \ Invoked # {}

----------------------------------------------------------------------------
(* C18 *)

\* how often p is in the list of type t
Occurrences(p, t) ==
    Cardinality({i \in 1..Len(process_types[t]) : process_types[t][i] = p})

\* every process of the tree is once in the list of its time_type and in no
\* other list, and the lists hold nothing else
IsPartitionOfTree ==
    /\ \A p \in Tree : \A t \in Types :
          Occurrences(p, t) = IF t = time_type[p] THEN 1 ELSE 0
    /\ \A p \in Procs \ Tree : \A t \in Types : Occurrences(p, t) = 0

\* C18: when the partition has been built, its four lists partition the
\* receiver and all its descendants: every process of the tree is exactly
\* once in the list named by its time_type and in no other, and no list has
\* a process from outside the tree.
C18_PartitionOfTree ==
    [][(~has_process_type_list /\ has_process_type_list') => IsPartitionOfTree']_vars

\* the first compute() of a run, over a tree that had lost a process before:
\* two processes of one type are listed, the third is not
C18_Witness ==
    /\ ncalls = 1
    /\ last.op = "compute"
    /\ has_process_type_list
    /\ Cardinality(Tree) = 2
    /\ \E t \in Types : Len(process_types[t]) = 2
    /\ IsPartitionOfTree

----------------------------------------------------------------------------
(* C19 *)

\* in its list, every process of the tree comes before its descendants of
\* the same type when topdown, after them otherwise
InWalkOrder ==
    \A p \in Tree : \A d \in Descendants(p) :
        time_type[d] = time_type[p] =>
            \E i, j \in 1..Len(process_types[time_type[p]]) :
                /\ process_types[time_type[p]][i] = p
                /\ process_types[time_type[p]][j] = d
                /\ IF topdown THEN i < j ELSE j < i

\* the processes of type t in the order the last call invoked them
InvokedOfType(t) ==
    LET calls == SelectSeq(last.log, LAMBDA e : e.proctype = t)
    IN  [i \in 1..Len(calls) |-> calls[i].proc]

\* C19: the traversal order governs the order of evaluation within a type:
\* a partition built with topdown true has every process before all its
\* descendants in its list, one built with topdown false has it after them,
\* and compute() invokes the processes of each type in the order of the list.
C19_TraversalOrder ==
    /\ []((last.op = "compute" /\ last.ok) =>
              \A t \in Types : InvokedOfType(t) = process_types[t])
    /\ [][(~has_process_type_list /\ has_process_type_list') => InWalkOrder']_vars

\* a chain of three explicit processes walked bottom-up: the grandchild is
\* invoked first, the receiver last
C19_Witness ==
    /\ ncalls = 1
    /\ last.op = "compute" /\ last.ok
    /\ ~topdown
    /\ subprocess = Chain
    /\ InvokedOfType("explicit") = <<"b", "a", "top">>

----------------------------------------------------------------------------
(* C20 *)

\* the receiver and b push Tatm up by a constant amount every step, and no
\* process holds it back: its change over a year is above every crit
Forced == law["top"] = "const" /\ law["b"] = "const"

\* C20: integrate_converge has no cap on its iterations.  With a constant
\* tendency whose change per year is above crit the call never returns:
\* every test of the forced variable finds the change above crit, so that
\* another one-year integration follows, for as many years as the model lets
\* run.
C20_NeverReturns ==
    (last.op = "integrate_converge" /\ Forced) =>
        /\ ~last.done
        /\ frame.pc \in {"for", "while"}
        /\ frame.todo # <<>>
        /\ (frame.pc = "while" /\ Head(frame.todo) = "Tatm") =>
              RGt(RAbs(RSub(frame.value_old, state["Tatm"])), frame.crit)

\* the forced variable is still being iterated, as far from convergence as
\* before, after as many one-year integrations as the model lets run
C20_Witness ==
    /\ last.op = "integrate_converge"
    /\ Forced
    /\ frame.pc = "while"
    /\ Head(frame.todo) = "Tatm"
    /\ frame.years_run = MaxConvergeYears
    /\ frame.tests = MaxConvergeYears - 1
    /\ RGt(RAbs(RSub(frame.value_old, state["Tatm"])), frame.crit)

----------------------------------------------------------------------------
(* C21 *)

\* the stage in which the last call failed: the type of the process invoked
\* last
FailedStage == last.log[Len(last.log)].proctype

\* C21: compute() does not roll back when it fails.  When a _compute() of the
\* implicit stage fails, compute() fails and leaves state at its value of
\* entry plus the explicit tendencies times the timestep; when one of the
\* adjustment stage fails, at that plus the implicit tendencies times the
\* timestep; a failure in an earlier stage leaves the state of entry.
C21_NoRollback ==
    (last.op = "compute" /\ last.log # <<>>
        /\ \/ last.log[Len(last.log)].raised
           \/ ReportsAbsentKey(last.log, Len(last.log))) =>
        /\ ~last.ok
        /\ \A v \in DOMAIN state :
              state[v] =
                  CASE FailedStage = "implicit" ->
                           Moved(v, LogSum(last.log, "explicit", v))
                    [] FailedStage = "adjustment" ->
                           Moved(v, RAdd(LogSum(last.log, "explicit", v),
                                         LogSum(last.log, "implicit", v)))
                    [] OTHER -> last.state[v]

\* a compute() that failed in the adjustment stage after explicit and
\* implicit processes had contributed: the state is not that of entry, nor
\* that of entry moved by the explicit tendencies alone
C21_Witness ==
    /\ last.op = "compute"
    /\ ~last.ok
    /\ last.log # <<>>
    /\ FailedStage = "adjustment"
    /\ Contributes(last.log, "explicit")
    /\ Contributes(last.log, "implicit")
    /\ state # last.state
    /\ \E v \in DOMAIN state :
          state[v] # Moved(v, LogSum(last.log, "explicit", v))

----------------------------------------------------------------------------
(* C22 *)

\* C22: the counters of every time record, in every state reached since its
\* timestep was set: day_of_year_index is between 0 and
\* ceil(num_steps_per_year) - 1, which makes it an index into days_of_year,
\* and steps is years_elapsed * ceil(num_steps_per_year) + day_of_year_index.
C22_CounterInvariant ==
    \A p \in Procs :
        LET perYear == Ceiling(time[p].num_steps_per_year)
        IN  /\ 0 <= time[p].day_of_year_index
            /\ time[p].day_of_year_index <= perYear - 1
            /\ time[p].day_of_year_index < Len(time[p].days_of_year)
            /\ time[p].steps =
                   time[p].years_elapsed * perYear + time[p].day_of_year_index

\* two and a half steps per year, four steps taken: one year of three steps
\* has passed and the second is one step old
C22_Witness ==
    /\ time["top"].num_steps_per_year = <<5, 2>>
    /\ Len(time["top"].days_of_year) = 3
    /\ time["top"].steps = 4
    /\ time["top"].years_elapsed = 1
    /\ time["top"].day_of_year_index = 1

====
